---- MODULE Spec2Model ----
(***************************************************************************)
(* A model of parts of fsl_mrs' dynamic-fitting code:                      *)
(*   - the fsl_dynmrs command-line run (scripts/fsl_dynmrs.py, main),      *)
(*   - the results classes dynRes / dynRes_newton / dynRes_mcmc            *)
(*     (utils/dynamic/dyn_results.py),                                     *)
(*   - the numerical routines of utils/misc.py: gradient, hessian,         *)
(*     calculate_lap_cov, calculate_crlb, and the uncertainties that       *)
(*     dynRes_newton derives from them,                                    *)
(*   - the subplot grid of the result plots (subplot_shape, plot_spectra), *)
(*   - the rejection of unlike FIDs (utils/preproc/unlike.py).             *)
(* A behaviour runs one of them, chosen in Init (scenario); the variables  *)
(* of the others stay at their idle values.                                *)
(***************************************************************************)
EXTENDS Integers, Sequences, FiniteSets, TLC

VARIABLES
    scenario,   \* which part this behaviour runs: "cli" | "res" | "grad" | "hess" |
                \* "lapcov" | "crlb" | "unc" | "plot" | "unlike"
    args,       \* fsl_dynmrs: the parsed command line (the options main reads)
    env,        \* fsl_dynmrs: what the run finds outside (folder, data list)
    pc,         \* fsl_dynmrs: position in main
    overwrite,  \* fsl_dynmrs: the local variable overwrite
    response,   \* fsl_dynmrs: the line read by input(), None before the prompt
    outdir,     \* fsl_dynmrs: the output folder: "absent" | "original" | "fresh"
    trace,      \* fsl_dynmrs: the calls with an outside effect, in order
    checked,    \* fsl_dynmrs: number of spectra of mrslist already checked
    init,       \* fsl_dynmrs: the value returned by dyn.initialise
    fitinit,    \* fsl_dynmrs: the init argument handed to dyn.fit
    garr,       \* gradient: the arrays, by owner: "caller" (the argument) and "local"
    gref,       \* gradient: the array the local name x is bound to
    gx0,        \* gradient: the caller's array as it was at the call (history)
    gpc,        \* gradient: position in gradient
    gi,         \* gradient: the loop index i (1-based here)
    geps,       \* gradient: eps of the current iteration
    gxx0,       \* gradient: xx0 of the current iteration
    gf0,        \* gradient: f0, the point f was evaluated at
    gf1,        \* gradient: f1, the point f was evaluated at
    gout,       \* gradient: the list named gradient
    gcalls,     \* gradient: number of calls of f so far
    graise,     \* gradient: the call of f that raises (0: none does)
    heap,       \* results: the live objects and their copies, by address
    samples,    \* results: the samples argument of the constructor
    res,        \* results: the result object's fields, None before construction
    ret,        \* results: the value returned by the last property read or call
    born,       \* results: what the result object returned right after construction (history)
    nmut,       \* results: number of mutations the caller has made since
    rpc,        \* results: "fitted" before the result object exists, then "built"
    hcall,      \* hessian: the locals of a call of hessian, and the caller's array
    lcall,      \* calculate_lap_cov: the locals of a call
    ccall,      \* calculate_crlb: the locals of a call
    ucall,      \* dynRes_newton.__init__: _cov_dyn, _std_dyn and _corr_dyn
    scall,      \* subplot_shape and plot_spectra: the locals of a call
    fcall       \* identifyUnlikeFIDs: the locals of a call

cliVars == <<args, env, pc, overwrite, response, outdir, trace, checked, init, fitinit>>

gradVars == <<garr, gref, gx0, gpc, gi, geps, gxx0, gf0, gf1, gout, gcalls, graise>>

resVars == <<heap, samples, res, ret, born, nmut, rpc>>

numVars == <<hcall, lcall, ccall, ucall>>

plotVars == <<scall, fcall>>

vars == <<scenario, cliVars, gradVars, resVars, numVars, plotVars>>

None == "None"

----------------------------------------------------------------------------
(* Bounds *)

MaxSpectra == 2     \* spectra in the list returned by data.mrs
MaxRespLen == 2     \* characters in the line typed at the prompt
MaxN == 2           \* length of the vector handed to gradient
MaxSize == 2        \* mapped size of a parameter group
MaxTimes == 2       \* timepoints (spectra) of the series
MaxSamples == 2     \* rows of an MCMC sample matrix
MaxMutations == 1   \* mutations the caller makes after the result is constructed
MaxPlots == 12      \* plots asked of subplot_shape
MaxFIDs == 3        \* FIDs in the list handed to identifyUnlikeFIDs
MaxIterations == 2  \* the iterations argument of identifyUnlikeFIDs

----------------------------------------------------------------------------
(* fsl_dynmrs.main *)

\* The characters a typed answer is made of.
RespChars == {"y", "Y", "n", "N", " "}

\* str.upper on one character.
UpperChar(c) ==
    CASE c = "y" -> "Y"
      [] c = "n" -> "N"
      [] OTHER   -> c

\* str.upper: character by character.
RECURSIVE Upper(_)
Upper(s) ==
    IF s = "" THEN ""
    ELSE UpperChar(SubSeq(s, 1, 1)) \o Upper(SubSeq(s, 2, Len(s)))

\* The lines input() can return, up to MaxRespLen characters.
RECURSIVE Lines(_)
Lines(n) ==
    IF n = 0 THEN {""}
    ELSE Lines(n - 1) \cup {l \o c : l \in {m \in Lines(n - 1) : Len(m) = n - 1}, c \in RespChars}

Responses == Lines(MaxRespLen)

Log(e) == trace' = Append(trace, e)

CliIdle ==
    /\ args = None /\ env = None /\ pc = "idle" /\ overwrite = FALSE
    /\ response = None /\ outdir = None /\ trace = <<>> /\ checked = 0
    /\ init = None /\ fitinit = None

\* The state when main has parsed its arguments (line 81) and done its imports.
CliInit ==
    /\ args \in [h2o : BOOLEAN, overwrite : BOOLEAN, report : BOOLEAN, t1 : BOOLEAN]
    /\ env \in [is_dir : BOOLEAN, nspectra : 1..MaxSpectra, xform : BOOLEAN]
    /\ pc = "check_output"
    /\ overwrite = FALSE
    /\ response = None
    /\ outdir = IF env.is_dir THEN "original" ELSE "absent"
    /\ trace = <<>>
    /\ checked = 0
    /\ init = None
    /\ fitinit = None

\* Lines 103-105, 117-118: overwrite = args.overwrite; the folder test; mkdir
\* when the folder does not exist.
CheckOutput ==
    /\ scenario = "cli" /\ pc = "check_output"
    /\ overwrite' = args.overwrite
    /\ IF outdir # "absent"
       THEN /\ pc' = IF args.overwrite THEN "delete" ELSE "prompt"
            /\ UNCHANGED <<outdir, trace>>
       ELSE /\ outdir' = "fresh"
            /\ Log("mkdir")
            /\ pc' = "read"
    /\ UNCHANGED <<gradVars, resVars, numVars, plotVars>>
    /\ UNCHANGED <<scenario, args, env, response, checked, init, fitinit>>

\* Confirms without the upper(): only a capital Y confirms.
ConfirmsCaseSensitive(r) == r = "Y"

\* Line 109: the test applied to the typed line.
Confirms(r) == Upper(r) = "Y"

\* Lines 106-113: the prompt, input(), and exit() when the answer is not Y.
Prompt ==
    /\ scenario = "cli" /\ pc = "prompt"
    /\ \E r \in Responses :
        /\ response' = r
        /\ overwrite' = Confirms(r)
        /\ IF Confirms(r)
           THEN /\ pc' = "delete"
                /\ Log("prompt")
           ELSE /\ pc' = "exited"
                /\ trace' = trace \o <<"prompt", "exit">>
    /\ UNCHANGED <<gradVars, resVars, numVars, plotVars>>
    /\ UNCHANGED <<scenario, args, env, outdir, checked, init, fitinit>>

\* Lines 114-116: shutil.rmtree and mkdir.
Delete ==
    /\ scenario = "cli" /\ pc = "delete"
    /\ outdir' = "fresh"
    /\ trace' = trace \o <<"rmtree", "mkdir">>
    /\ pc' = "read"
    /\ UNCHANGED <<gradVars, resVars, numVars, plotVars>>
    /\ UNCHANGED <<scenario, args, env, overwrite, response, checked, init, fitinit>>

\* Line 127: mrs_io.read_FID.
ReadData ==
    /\ scenario = "cli" /\ pc = "read"
    /\ Log("read_FID")
    /\ pc' = "h2o"
    /\ UNCHANGED <<gradVars, resVars, numVars, plotVars>>
    /\ UNCHANGED <<scenario, args, env, overwrite, response, outdir, checked, init, fitinit>>

\* Lines 134-138: the --h2o rejection, else the MRS list is created.
CheckH2O ==
    /\ scenario = "cli" /\ pc = "h2o"
    /\ IF args.h2o
       THEN /\ Log("NotImplementedError")
            /\ pc' = "raised"
       ELSE /\ Log("mrs")
            /\ pc' = "check_list"
    /\ UNCHANGED <<gradVars, resVars, numVars, plotVars>>
    /\ UNCHANGED <<scenario, args, env, overwrite, response, outdir, checked, init, fitinit>>

\* Lines 139-141: one iteration of the loop over mrslist.
CheckSpectrum ==
    /\ scenario = "cli" /\ pc = "check_list"
    /\ checked < env.nspectra
    /\ trace' = trace \o <<"check_FID", "check_Basis">>
    /\ checked' = checked + 1
    /\ UNCHANGED <<gradVars, resVars, numVars, plotVars>>
    /\ UNCHANGED <<scenario, args, env, pc, overwrite, response, outdir, init, fitinit>>

\* The construction not waiting for the loop over mrslist to end.
ConstructBeforeChecks ==
    /\ scenario = "cli" /\ pc = "check_list"
    /\ checked <= env.nspectra
    /\ trace' = trace \o <<"loadtxt", "parse_metab_groups", "dynMRS">>
    /\ pc' = "initialise"
    /\ UNCHANGED <<gradVars, resVars, numVars, plotVars>>
    /\ UNCHANGED <<scenario, args, env, overwrite, response, outdir, checked, init, fitinit>>

\* Lines 150-185: time variables, metabolite groups, dynMRS construction.
Construct ==
    /\ scenario = "cli" /\ pc = "check_list"
    /\ checked = env.nspectra
    /\ trace' = trace \o <<"loadtxt", "parse_metab_groups", "dynMRS">>
    /\ pc' = "initialise"
    /\ UNCHANGED <<gradVars, resVars, numVars, plotVars>>
    /\ UNCHANGED <<scenario, args, env, overwrite, response, outdir, checked, init, fitinit>>

\* Line 192: init = dyn.initialise(...).
Initialise ==
    /\ scenario = "cli" /\ pc = "initialise"
    /\ Log("initialise")
    /\ init' = "init_result"
    /\ pc' = "fit"
    /\ UNCHANGED <<gradVars, resVars, numVars, plotVars>>
    /\ UNCHANGED <<scenario, args, env, overwrite, response, outdir, checked, fitinit>>

\* Line 195: dyn_res = dyn.fit(init=init, ...).
Fit ==
    /\ scenario = "cli" /\ pc = "fit"
    /\ Log("fit")
    /\ fitinit' = init
    /\ pc' = "save"
    /\ UNCHANGED <<gradVars, resVars, numVars, plotVars>>
    /\ UNCHANGED <<scenario, args, env, overwrite, response, outdir, checked, init>>

\* Lines 214-238: options.txt, dyn_res.save, the voxel location figure.
Save ==
    /\ scenario = "cli" /\ pc = "save"
    /\ trace' = trace \o <<"options.txt", "save">>
                      \o (IF args.t1 /\ env.xform THEN <<"voxel_location.png">> ELSE <<>>)
    /\ pc' = "report"
    /\ UNCHANGED <<gradVars, resVars, numVars, plotVars>>
    /\ UNCHANGED <<scenario, args, env, overwrite, response, outdir, checked, init, fitinit>>

\* Lines 241-254: the HTML report when --report was given; main returns.
Report ==
    /\ scenario = "cli" /\ pc = "report"
    /\ trace' = IF args.report THEN Append(trace, "report.html") ELSE trace
    /\ pc' = "done"
    /\ UNCHANGED <<gradVars, resVars, numVars, plotVars>>
    /\ UNCHANGED <<scenario, args, env, overwrite, response, outdir, checked, init, fitinit>>


----------------------------------------------------------------------------
(* float64 values, as far as gradient's step needs them.                   *)
(* A value is 0, s*2^e (k = "pow2"), s*2^e + 2^d (k = "sum", the result of *)
(* an exact addition), s*2^e + 2^d + 2^(e-52) (k = "ulp", a sum rounded to  *)
(* the 53 bits of the significand), the decimal constant 1e-5 (k = "1e-5"), *)
(* an infinity or NaN.                                                     *)

Eps32Exp == -23     \* np.finfo(np.float32).eps = 2^-23
MinExp == -1074     \* the smallest positive float64 is 2^-1074

Zero == [k |-> "zero", s |-> 1, e |-> 0, d |-> 0]
NaN == [k |-> "nan", s |-> 1, e |-> 0, d |-> 0]
Inf(s) == [k |-> "inf", s |-> s, e |-> 0, d |-> 0]
Pow2(s, e) == [k |-> "pow2", s |-> s, e |-> e, d |-> 0]
Dec1em5 == [k |-> "1e-5", s |-> 1, e |-> 0, d |-> 0]

\* 1 + 2^-52, the float64 after 1.0.
OnePlusUlp == [k |-> "sum", s |-> 1, e |-> 0, d |-> -52]

\* The coordinates the caller's vector is drawn from: zero, the smallest
\* subnormal, the two values either side of the underflow of |x| * 2^-23,
\* -1.0, 1 + 2^-52, an infinity and NaN.
FloatInputs ==
    {Zero, NaN, Inf(-1),
     Pow2(1, MinExp), Pow2(1, MinExp - Eps32Exp - 1), Pow2(-1, MinExp - Eps32Exp),
     Pow2(-1, 0), OnePlusUlp}

\* abs() of a float.
FAbs(v) == [v EXCEPT !.s = 1]

\* v * np.finfo(np.float32).eps, rounded to float64: a result below 2^-1074
\* is at most half of it and rounds (ties to even) to 0.
MulEps32(v) ==
    CASE v.k = "pow2" -> IF v.e + Eps32Exp >= MinExp THEN Pow2(v.s, v.e + Eps32Exp) ELSE Zero
      [] v.k = "sum"  -> [v EXCEPT !.e = @ + Eps32Exp, !.d = @ + Eps32Exp]   \* exact scaling
      [] OTHER        -> v

\* v == 0 in float64 (NaN compares unequal to everything).
IsZero(v) == v.k = "zero"

\* a + b for the additions gradient makes: a is a coordinate, b its step.
FAdd(a, b) ==
    CASE a.k = "nan" \/ b.k = "nan"        -> NaN
      [] a.k = "inf" /\ b.k = "inf"        -> IF a.s = b.s THEN a ELSE NaN
      [] a.k = "inf"                       -> a
      [] b.k = "inf"                       -> b
      [] a.k = "zero"                      -> b
      [] b.k = "zero"                      -> a
      [] a.k = "pow2" /\ b.k = "1e-5"      -> b   \* |a| <= 2^-1052 is absorbed
      [] a.k = "sum" /\ b.k = "sum"        ->      \* 2^(a.d-23) is rounded away
           [k |-> "ulp", s |-> a.s, e |-> a.e, d |-> b.e]
      [] OTHER                             -> [k |-> "sum", s |-> a.s, e |-> a.e, d |-> b.e]

\* Whether the float64 a + b above is the real number a + b: nothing was
\* absorbed or rounded away, and both are finite.
ExactSum(a, b) ==
    CASE a.k = "zero" /\ b.k \in {"zero", "pow2", "sum", "1e-5"} -> TRUE
      [] b.k = "zero" /\ a.k \in {"pow2", "sum", "1e-5"}         -> TRUE
      [] a.k = "pow2" /\ b.k = "pow2"                            -> TRUE
      [] OTHER                                                   -> FALSE

----------------------------------------------------------------------------
(* misc.gradient *)

GradIdle ==
    /\ garr = None /\ gref = None /\ gx0 = None /\ gpc = "idle" /\ gi = 0
    /\ geps = None /\ gxx0 = None /\ gf0 = None /\ gf1 = None /\ gout = <<>>
    /\ gcalls = 0 /\ graise = 0

\* The call gradient(x, f): the caller's array, and an f that raises at one of
\* its calls or at none.
GradInit ==
    /\ \E n \in 1..MaxN : \E x \in [1..n -> FloatInputs] :
        /\ garr = [a \in {"caller", "local"} |-> IF a = "caller" THEN x ELSE <<>>]
        /\ gx0 = x
        /\ graise \in 0..(2 * n)
    /\ gref = "caller"
    /\ gpc = "astype"
    /\ gi = 0
    /\ geps = None /\ gxx0 = None /\ gf0 = None /\ gf1 = None
    /\ gout = <<>>
    /\ gcalls = 0

\* gradient without the copy: the name x stays bound to the caller's array.
AstypeAliased == "caller"

\* Line 94: x.astype(float) returns a new array, which the name x is bound to.
AstypeTarget == "local"

\* Lines 94-96: x = x.astype(float); N = x.size; gradient = [].
GradAstype ==
    /\ scenario = "grad" /\ gpc = "astype"
    /\ garr' = [garr EXCEPT ![AstypeTarget] = garr["caller"]]
    /\ gref' = AstypeTarget
    /\ gi' = 1
    /\ gout' = <<>>
    /\ gpc' = "eps"
    /\ UNCHANGED <<gx0, geps, gxx0, gf0, gf1, gcalls, graise>>
    /\ UNCHANGED <<scenario, cliVars, resVars, numVars, plotVars>>

\* The floor applied when the coordinate is zero instead of when eps is.
StepFloorOnX(eps, xi) == IF IsZero(xi) THEN Dec1em5 ELSE eps

\* Lines 99-100: the step that replaces a zero eps.
StepFloor(eps, xi) == IF IsZero(eps) THEN Dec1em5 ELSE eps

\* Lines 97-101: the loop test, eps and xx0 of iteration i; line 108 when the
\* loop is over.
GradEps ==
    /\ scenario = "grad" /\ gpc = "eps"
    /\ IF gi <= Len(garr[gref])
       THEN /\ geps' = StepFloor(MulEps32(FAbs(garr[gref][gi])), garr[gref][gi])
            /\ gxx0' = garr[gref][gi]
            /\ gpc' = "f0"
       ELSE /\ gpc' = "returned"
            /\ UNCHANGED <<geps, gxx0>>
    /\ UNCHANGED <<garr, gref, gx0, gi, gf0, gf1, gout, gcalls, graise>>
    /\ UNCHANGED <<scenario, cliVars, resVars, numVars, plotVars>>

\* Line 102: f0 = f(x); f may raise.
GradF0 ==
    /\ scenario = "grad" /\ gpc = "f0"
    /\ gcalls' = gcalls + 1
    /\ IF graise = gcalls + 1
       THEN /\ gpc' = "raised"
            /\ UNCHANGED gf0
       ELSE /\ gf0' = garr[gref]
            /\ gpc' = "f1"
    /\ UNCHANGED <<garr, gref, gx0, gi, geps, gxx0, gf1, gout, graise>>
    /\ UNCHANGED <<scenario, cliVars, resVars, numVars, plotVars>>

\* Lines 103-104: x[i] = x[i] + eps; f1 = f(x); f may raise.
GradF1 ==
    /\ scenario = "grad" /\ gpc = "f1"
    /\ garr' = [garr EXCEPT ![gref][gi] = FAdd(garr[gref][gi], geps)]
    /\ gcalls' = gcalls + 1
    /\ IF graise = gcalls + 1
       THEN /\ gpc' = "raised"
            /\ UNCHANGED gf1
       ELSE /\ gf1' = garr'[gref]
            /\ gpc' = "append"
    /\ UNCHANGED <<gref, gx0, gi, geps, gxx0, gf0, gout, graise>>
    /\ UNCHANGED <<scenario, cliVars, resVars, numVars, plotVars>>

\* The end of an iteration without line 107.
GradAppendNoRestore ==
    /\ scenario = "grad" /\ gpc = "append"
    /\ gout' = Append(gout, [f1 |-> gf1, f0 |-> gf0, eps |-> geps])
    /\ gi' = gi + 1
    /\ gpc' = "eps"
    /\ UNCHANGED <<garr, gref, gx0, geps, gxx0, gf0, gf1, gcalls, graise>>
    /\ UNCHANGED <<scenario, cliVars, resVars, numVars, plotVars>>

\* Lines 106-107: gradient.append((f1-f0)/eps); x[i] = xx0.
GradAppend ==
    /\ scenario = "grad" /\ gpc = "append"
    /\ gout' = Append(gout, [f1 |-> gf1, f0 |-> gf0, eps |-> geps])
    /\ garr' = [garr EXCEPT ![gref][gi] = gxx0]
    /\ gi' = gi + 1
    /\ gpc' = "eps"
    /\ UNCHANGED <<gref, gx0, geps, gxx0, gf0, gf1, gcalls, graise>>
    /\ UNCHANGED <<scenario, cliVars, resVars, numVars, plotVars>>

----------------------------------------------------------------------------
(* The fitting context a result object is built from: the dynMRS object,   *)
(* its variable mapping, time variable, spectrum list and data, and the    *)
(* dictionary returned by initialise.  Objects live in heap, by address; a *)
(* field that holds another object holds its address.                      *)

Digits == <<"0", "1", "2", "3", "4", "5", "6", "7", "8", "9">>

\* The decimal digits of n, as an f-string formats an int.
RECURSIVE IntStr(_)
IntStr(n) == IF n < 10 THEN Digits[n + 1] ELSE IntStr(n \div 10) \o Digits[(n % 10) + 1]

RECURSIVE SumSeq(_)
SumSeq(q) == IF q = <<>> THEN 0 ELSE Head(q) + SumSeq(Tail(q))

RECURSIVE Flat(_)
Flat(qq) == IF qq = <<>> THEN <<>> ELSE Head(qq) \o Flat(Tail(qq))

\* The behaviour of a parameter group, vm.Parameters[name]: the string
\* 'fixed', the string 'variable', a dictionary with the keys 'dynamic' and
\* 'params', or anything else ("other").
Fixed == [tag |-> "fixed", params |-> <<>>]
Variable == [tag |-> "variable", params |-> <<>>]
Dynamic(ps) == [tag |-> "dynamic", params |-> ps]
Other == [tag |-> "other", params |-> <<>>]

Behaviours == {Fixed, Variable, Dynamic(<<"c_amp", "c_adc">>), Other}

\* The group names of a configuration, in vm.mapped_names order.
NameOrders == {<<"conc">>, <<"eps">>, <<"conc", "eps">>, <<"eps", "conc">>}

MetabNames == <<"NAA", "Cr", "PCr", "Glu", "Gln">>

LiveAddr == {"dyn", "vm", "time_var", "mrs_list", "data"}
CopyAddr(a) == a \o "_c"
Addr == LiveAddr \cup {CopyAddr(a) : a \in LiveAddr} \cup {"init", "init_x", "init_x2"}

\* Number of free parameters of group i of a variable mapping.
NFree(vm, i) ==
    LET beh == vm.Parameters[vm.mapped_names[i]]
    IN  CASE beh.tag = "fixed"    -> vm.mapped_sizes[i]
          [] beh.tag = "variable" -> vm.mapped_sizes[i] * vm.ntimes
          [] beh.tag = "dynamic"  -> vm.mapped_sizes[i] * Len(beh.params)
          [] OTHER                -> 0

NFreeTotal(vm) == SumSeq([i \in 1..Len(vm.mapped_names) |-> NFree(vm, i)])

FreeOffset(vm, i) == SumSeq([j \in 1..(i - 1) |-> NFree(vm, j)])

\* 0-based position p of a mapped index or timepoint, as it appears in a name.
FreeNamesOfGroup(vm, i) ==
    LET name == vm.mapped_names[i]
        size == vm.mapped_sizes[i]
        beh  == vm.Parameters[name]
    IN  CASE beh.tag = "fixed" ->
               [k \in 1..size |-> name \o "_" \o IntStr(k - 1)]
          [] beh.tag = "variable" ->
               [n \in 1..(size * vm.ntimes) |->
                   name \o "_" \o IntStr((n - 1) % size) \o "_t" \o IntStr((n - 1) \div size)]
          [] beh.tag = "dynamic" ->
               [n \in 1..(size * Len(beh.params)) |->
                   name \o "_" \o beh.params[((n - 1) % Len(beh.params)) + 1]
                        \o "_" \o IntStr((n - 1) \div Len(beh.params))]
          [] OTHER -> <<>>

\* dyn.free_names: one name per free parameter, in free-vector order.
FreeNames(vm) == Flat([i \in 1..Len(vm.mapped_names) |-> FreeNamesOfGroup(vm, i)])

\* The dynamic model g(t, theta): a polynomial in t with coefficients theta.
DynModel(t, theta) ==
    theta[1] + (IF Len(theta) >= 2 THEN theta[2] * t ELSE 0)

HasOther(vm) ==
    \E i \in 1..Len(vm.mapped_names) :
        vm.Parameters[vm.mapped_names[i]].tag \notin {"fixed", "variable", "dynamic"}

\* vm.free_to_mapped(p): per timepoint, per group, the mapped values.  A
\* vector of the wrong length or a group of unknown behaviour is an error.
FreeToMapped(vm, tvar, p) ==
    IF HasOther(vm) \/ Len(p) # NFreeTotal(vm) \/ Len(tvar) # vm.ntimes
    THEN [ok |-> FALSE, val |-> <<>>]
    ELSE [ok |-> TRUE,
          val |-> [t \in 1..vm.ntimes |->
                    [i \in 1..Len(vm.mapped_names) |->
                      LET size == vm.mapped_sizes[i]
                          beh  == vm.Parameters[vm.mapped_names[i]]
                          off  == FreeOffset(vm, i)
                          nc   == Len(beh.params)
                      IN  CASE beh.tag = "fixed" ->
                                 [k \in 1..size |-> p[off + k]]
                            [] beh.tag = "variable" ->
                                 [k \in 1..size |-> p[off + (t - 1) * size + k]]
                            [] OTHER ->
                                 [k \in 1..size |->
                                    DynModel(tvar[t], SubSeq(p, off + (k - 1) * nc + 1, off + k * nc))]]]]

\* The mapped trajectory initialise returns as init['x'].
InitTrajectory(vm) ==
    [t \in 1..vm.ntimes |->
        [i \in 1..Len(vm.mapped_names) |->
            [k \in 1..vm.mapped_sizes[i] |-> 100 * (t - 1) + 10 * i + k]]]

\* The objects before the result is constructed.
InitHeap(names, sizes, behs, ntimes) ==
    LET vm == [mapped_names |-> names,
               mapped_sizes |-> sizes,
               Parameters |-> [n \in {names[i] : i \in 1..Len(names)} |->
                                 behs[CHOOSE i \in 1..Len(names) : names[i] = n]],
               ntimes |-> ntimes,
               time_variable |-> "time_var"]
        nmetab == IF \E i \in 1..Len(names) : names[i] = "conc"
                  THEN sizes[CHOOSE i \in 1..Len(names) : names[i] = "conc"]
                  ELSE 1
    IN  [a \in Addr |->
          CASE a = "dyn" -> [vm |-> "vm", time_var |-> "time_var",
                             mrs_list |-> "mrs_list", data |-> "data"]
            [] a = "vm" -> vm
            [] a = "time_var" -> [t \in 1..ntimes |-> t - 1]
            [] a = "mrs_list" -> [t \in 1..ntimes |-> [names |-> SubSeq(MetabNames, 1, nmetab)]]
            [] a = "data" -> [t \in 1..ntimes |-> 0]
            [] a = "init" -> [x |-> "init_x"]
            [] a = "init_x" -> InitTrajectory(vm)
            [] OTHER -> None]

\* The free-parameter value the optimiser returns in row r, column j.
SampleVal(r, j) == 7 * j + 3 * (r - 1) * (r - 1)

\* copy.deepcopy that copies nothing: the result shares the live object.
NoCopy(h, root) == [heap |-> h, ref |-> root]

\* Line 58, copy.deepcopy(dyn): every object reachable from dyn is copied,
\* and the copies refer to each other.
DeepCopy(h, root) ==
    [heap |-> [a \in Addr |->
                CASE a = CopyAddr("dyn") ->
                       [f \in DOMAIN h["dyn"] |-> CopyAddr(h["dyn"][f])]
                  [] a = CopyAddr("vm") ->
                       [h["vm"] EXCEPT !.time_variable = CopyAddr(@)]
                  [] a \in {CopyAddr(o) : o \in LiveAddr \ {"dyn", "vm"}} ->
                       h[CHOOSE o \in LiveAddr : a = CopyAddr(o)]
                  [] OTHER -> h[a]],
     ref |-> CopyAddr(root)]

----------------------------------------------------------------------------
(* dyn_results: dynRes, dynRes_newton, dynRes_mcmc *)

\* The objects a result object r reaches through self._dyn in heap h.
DynOf(r, h) == h[r._dyn]
VmOf(r, h) == h[DynOf(r, h).vm]
TimeVarOf(r, h) == h[VmOf(r, h).time_variable]

\* dyn.metabolite_names: the basis names of the first spectrum.
MetaboliteNames(r, h) == h[DynOf(r, h).mrs_list][1].names

\* A rational number num/den in lowest terms (den > 0).
RECURSIVE Gcd(_, _)
Gcd(a, b) == IF b = 0 THEN a ELSE Gcd(b, a % b)
Rat(num, den) ==
    LET g == Gcd(IF num < 0 THEN -num ELSE num, den)
    IN  IF num = 0 THEN [num |-> 0, den |-> 1] ELSE [num |-> num \div g, den |-> den \div g]

\* DataFrame.mean(): the mean of each column over the rows.
ColumnMean(data) ==
    [j \in 1..Len(data[1]) |-> Rat(SumSeq([s \in 1..Len(data) |-> data[s][j]]), Len(data))]

\* x taken from the first sample instead of the mean.
XFirstSample(r) == [j \in 1..Len(r._data[1]) |-> Rat(r._data[1][j], 1)]

\* Lines 68-71, the property x.
X(r) == ColumnMean(r._data)

\* flatten_mapped stacking the groups of a timepoint in reverse order.
RECURSIVE FlatReversed(_)
FlatReversed(qq) == IF qq = <<>> THEN <<>> ELSE FlatReversed(Tail(qq)) \o Head(qq)
FlattenMappedReversed(mapped) == [t \in 1..Len(mapped) |-> FlatReversed(mapped[t])]

\* Lines 73-86, flatten_mapped: np.hstack of the groups of each timepoint.
FlattenMapped(mapped) == [t \in 1..Len(mapped) |-> Flat(mapped[t])]

\* Lines 88-99, the property mapped_parameters.
MappedParameters(r, h) ==
    LET per == [s \in 1..Len(r._data) |-> FreeToMapped(VmOf(r, h), TimeVarOf(r, h), r._data[s])]
    IN  IF \E s \in 1..Len(per) : ~per[s].ok
        THEN [ok |-> FALSE, val |-> <<>>]
        ELSE [ok |-> TRUE, val |-> [s \in 1..Len(per) |-> FlattenMapped(per[s].val)]]

\* Lines 101-109, the property mapped_parameters_init.
MappedParametersInit(r, h) == FlattenMapped(h[r._init_x])

\* vm.mapped_to_free(mapped) for a mapping whose groups are all fixed or
\* variable: a fixed group gets, per mapped index, the average of its values
\* over the timepoints; a variable group gets its values copied, timepoint by
\* timepoint.  The values are exact rationals.  The least-squares inversion
\* of a dynamic group is not modelled (ok is FALSE).
MappedToFree(vm, mapped) ==
    IF \E i \in 1..Len(vm.mapped_names) :
          vm.Parameters[vm.mapped_names[i]].tag \notin {"fixed", "variable"}
    THEN [ok |-> FALSE, val |-> <<>>]
    ELSE [ok |-> TRUE,
          val |-> Flat([i \in 1..Len(vm.mapped_names) |->
                    LET size == vm.mapped_sizes[i]
                    IN  IF vm.Parameters[vm.mapped_names[i]].tag = "fixed"
                        THEN [k \in 1..size |->
                                Rat(SumSeq([t \in 1..vm.ntimes |-> mapped[t][i][k]]), vm.ntimes)]
                        ELSE [n \in 1..(size * vm.ntimes) |->
                                Rat(mapped[((n - 1) \div size) + 1][i][((n - 1) % size) + 1], 1)]])]

\* Lines 111-118, the property free_parameters_init.
FreeParametersInit(r, h) == MappedToFree(VmOf(r, h), h[r._init_x])

\* A flattened trajectory of integers as rationals.
AsRationals(rows) ==
    [t \in 1..Len(rows) |-> [c \in 1..Len(rows[t]) |-> Rat(rows[t][c], 1)]]

\* mapped_parameters_fitted_init returning the init trajectory itself.
FittedInitIsInit(r, h) ==
    [ok |-> FreeParametersInit(r, h).ok, val |-> AsRationals(MappedParametersInit(r, h))]

\* Lines 129-137, the property mapped_parameters_fitted_init.
MappedParametersFittedInit(r, h) ==
    LET fp == FreeParametersInit(r, h)
        m  == FreeToMapped(VmOf(r, h), TimeVarOf(r, h), fp.val)
    IN  IF fp.ok /\ m.ok
        THEN [ok |-> TRUE, val |-> FlattenMapped(m.val)]
        ELSE [ok |-> FALSE, val |-> <<>>]

\* Lines 139-147, the properties mapped_names and free_names.
MappedNames(r, h) == VmOf(r, h).mapped_names
FreeNamesProp(r, h) == FreeNames(VmOf(r, h))

\* values[lo:hi] of Python: 0-based, half open, cut at the end of values.
Slice(values, lo, hi) ==
    SubSeq(values, lo + 1, IF hi < Len(values) THEN hi ELSE Len(values))

\* d[key] = val on a dictionary kept as its items in insertion order.
DictSet(d, key, val) ==
    IF \E n \in 1..Len(d) : d[n].key = key
    THEN [n \in 1..Len(d) |-> IF d[n].key = key THEN [key |-> key, val |-> val] ELSE d[n]]
    ELSE Append(d, [key |-> key, val |-> val])

\* The label column with the synthetic names counted from 1.
LabelColumnFromOne(param, nmapped, metab_names) ==
    IF param # "conc"
    THEN [key |-> "name", val |-> [x \in 1..nmapped |-> param \o "_" \o IntStr(x)]]
    ELSE [key |-> "metab", val |-> metab_names]

\* Lines 177-180 (and 184-187, 195-198): the label column of a group.
LabelColumn(param, nmapped, metab_names) ==
    IF param # "conc"
    THEN [key |-> "name", val |-> [x \in 1..nmapped |-> param \o "_" \o IntStr(x - 1)]]
    ELSE [key |-> "metab", val |-> metab_names]

\* The loop over timepoints reading the same slice for every timepoint.
VariableColumnsSameSlice(entry, values, counter, nmapped, t, ntimes) ==
    [entry |-> [c \in 1..(Len(entry) + ntimes) |->
                  IF c <= Len(entry) THEN entry[c]
                  ELSE [key |-> "t" \o IntStr(c - Len(entry) - 1),
                        val |-> Slice(values, counter, counter + nmapped)]],
     counter |-> counter + nmapped]

\* Lines 188-190: the loop over timepoints of a variable group, from t on.
RECURSIVE VariableColumns(_, _, _, _, _, _)
VariableColumns(entry, values, counter, nmapped, t, ntimes) ==
    IF t >= ntimes
    THEN [entry |-> entry, counter |-> counter]
    ELSE VariableColumns(
             DictSet(entry, "t" \o IntStr(t), Slice(values, counter, counter + nmapped)),
             values, counter + nmapped, nmapped, t + 1, ntimes)

\* Lines 199-203: the rows of tmp, one slice of nfree values per mapped index.
RECURSIVE DynamicRows(_, _, _, _, _)
DynamicRows(tmp, values, counter, nfree, left) ==
    IF left = 0
    THEN [tmp |-> tmp, counter |-> counter]
    ELSE DynamicRows(Append(tmp, Slice(values, counter, counter + nfree)),
                     values, counter + nfree, nfree, left - 1)

\* Lines 204-205: results[param][t] = tmp[:, i] for each coefficient name.
RECURSIVE DynamicColumns(_, _, _, _)
DynamicColumns(entry, tmp, dyn_name, i) ==
    IF i > Len(dyn_name)
    THEN entry
    ELSE DynamicColumns(DictSet(entry, dyn_name[i], [k \in 1..Len(tmp) |-> tmp[k][i]]),
                        tmp, dyn_name, i + 1)

\* The loop body skipping the values of a group of unrecognised behaviour.
GroupResultsSkipping(vm, index, values, counter, metab_names) ==
    LET nmapped == vm.mapped_sizes[index]
        beh     == vm.Parameters[vm.mapped_names[index]]
        label   == <<LabelColumn(vm.mapped_names[index], nmapped, metab_names)>>
    IN  CASE beh.tag = "fixed" \/ beh.tag = "dynamic" ->
               [ok |-> TRUE,
                entry |-> DictSet(label, "Values", Slice(values, counter, counter + nmapped)),
                counter |-> counter + nmapped]
          [] beh.tag = "variable" ->
               [ok |-> TRUE] @@ VariableColumns(label, values, counter, nmapped, 0, vm.ntimes)
          [] OTHER ->
               [ok |-> TRUE, entry |-> <<>>, counter |-> counter + nmapped]

\* Lines 172-205: the body of the loop over vm.mapped_names for one group,
\* from the counter it starts with.  ok is FALSE where Python raises (tmp is
\* ragged because values ran out).
GroupResults(vm, index, values, counter, metab_names) ==
    LET param   == vm.mapped_names[index]
        nmapped == vm.mapped_sizes[index]
        beh     == vm.Parameters[param]
        label   == <<LabelColumn(param, nmapped, metab_names)>>
    IN  CASE beh.tag = "fixed" ->
               [ok |-> TRUE,
                entry |-> DictSet(label, "Values", Slice(values, counter, counter + nmapped)),
                counter |-> counter + nmapped]
          [] beh.tag = "variable" ->
               [ok |-> TRUE] @@ VariableColumns(label, values, counter, nmapped, 0, vm.ntimes)
          [] beh.tag = "dynamic" ->
               LET rows == DynamicRows(<<>>, values, counter, Len(beh.params), nmapped)
               IN  IF \E k \in 1..Len(rows.tmp) : Len(rows.tmp[k]) # Len(beh.params)
                   THEN [ok |-> FALSE, entry |-> <<>>, counter |-> rows.counter]
                   ELSE [ok |-> TRUE,
                         entry |-> DynamicColumns(label, rows.tmp, beh.params, 1),
                         counter |-> rows.counter]
          [] OTHER ->
               [ok |-> TRUE, entry |-> <<>>, counter |-> counter]

\* Lines 171-205: the loop over the groups, from group index on.
RECURSIVE CollectGroups(_, _, _, _, _, _)
CollectGroups(vm, index, values, counter, metab_names, done) ==
    IF index > Len(vm.mapped_names)
    THEN done
    ELSE LET g == GroupResults(vm, index, values, counter, metab_names)
         IN  CollectGroups(vm, index + 1, values, g.counter, metab_names, Append(done, g))

\* Lines 149-213, collected_results(to_file=None): the dictionary results,
\* keyed by group name, and the final counter.
CollectedResults(r, h) ==
    LET vm   == VmOf(r, h)
        done == CollectGroups(vm, 1, X(r), 0, MetaboliteNames(r, h), <<>>)
        keys == {vm.mapped_names[i] : i \in 1..Len(vm.mapped_names)}
        last(n) == CHOOSE i \in 1..Len(done) :
                      /\ vm.mapped_names[i] = n
                      /\ \A j \in 1..Len(done) : vm.mapped_names[j] = n => j <= i
    IN  IF \E i \in 1..Len(done) : ~done[i].ok
        THEN [ok |-> FALSE, val |-> <<>>, counter |-> 0]
        ELSE [ok |-> TRUE,
              val |-> [n \in keys |-> done[last(n)].entry],
              counter |-> IF done = <<>> THEN 0 ELSE done[Len(done)].counter]

\* Lines 443-450 and 470-477, the properties cov_dyn and std of dynRes_newton.
CovDyn(r, h) == [values |-> r._cov_dyn, index |-> FreeNamesProp(r, h)]
Std(r, h) == [values |-> r._std, index |-> VmOf(r, h).mapped_names]

\* What the properties and collected_results of r return in heap h.
Returned(r, h) ==
    [x |-> X(r),
     mapped_parameters |-> MappedParameters(r, h),
     mapped_parameters_init |-> MappedParametersInit(r, h),
     mapped_parameters_fitted_init |-> MappedParametersFittedInit(r, h),
     mapped_names |-> MappedNames(r, h),
     free_names |-> FreeNamesProp(r, h),
     collected_results |-> CollectedResults(r, h),
     cov_dyn |-> CovDyn(r, h),
     std |-> Std(r, h)]

\* Lines 55-61, dynRes.__init__: the DataFrame of the samples, the copy of
\* dyn, and init['x'].
BaseInit(data, h) ==
    LET c == DeepCopy(h, "dyn")
    IN  [heap |-> c.heap,
         res |-> [cls |-> "dynRes", _data |-> data, _dyn |-> c.ref, _init_x |-> h["init"].x,
                  _cov_dyn |-> None, _std |-> None]]

\* calculate_lap_cov(x, dyn.full_fwd, data) and the propagated std: values
\* determined by the optimum, the live fitting context and the data.
Context(h) == [vm |-> h["vm"], time_var |-> h["time_var"], mrs_list |-> h["mrs_list"]]
LapCov(x, h) == [fn |-> "calculate_lap_cov", x |-> x, f |-> Context(h), data |-> h["data"]]

\* The partial derivative of mapped parameter j of group i at timepoint kk
\* with respect to free parameter ll.
Deriv(ll, kk, i, j) == [free |-> ll, time |-> kk, group |-> i, index |-> j]

\* Line 431, gradient(samples, dyn.vm.free_to_mapped): entry ll of the array
\* is the difference quotient of free_to_mapped for free parameter ll, one
\* vector per timepoint and group.
GradientOfMapping(vm, M) ==
    [ll \in 1..M |-> [kk \in 1..vm.ntimes |-> [i \in 1..Len(vm.mapped_names) |->
        [j \in 1..vm.mapped_sizes[i] |-> Deriv(ll, kk, i, j)]]]]

\* Line 431, np.transpose(a, (2, 0, 1)): result[i][ll][kk] = a[ll][kk][i].
Transpose201(a) ==
    [i \in 1..Len(a[1][1]) |-> [ll \in 1..Len(a) |-> [kk \in 1..Len(a[1]) |-> a[ll][kk][i]]]]

\* The list of line 437 built with the timepoint as the outer loop.
GradListTimeMajor(grad_all, i, j, M, N) ==
    [p \in 1..(M * N) |-> grad_all[i][((p - 1) % M) + 1][((p - 1) \div M) + 1][j]]

\* Line 437, [grad_all[i][ll, kk][j] for ll in range(M) for kk in range(N)].
GradList(grad_all, i, j, M, N) ==
    [p \in 1..(M * N) |-> grad_all[i][((p - 1) \div N) + 1][((p - 1) % N) + 1][j]]

\* Line 437, np.reshape(list, (M, N)).T: an N x M array.
ReshapeT(list, M, N) ==
    [b \in 1..N |-> [a \in 1..M |-> list[(a - 1) * N + b]]]

\* Line 438, np.sqrt(np.diag(grad @ cov @ grad.T)): one value per row g of
\* grad, the root of g cov g^T.
SqrtDiag(grad) == [t \in 1..Len(grad) |-> [fn |-> "sqrt(g cov g^T)", g |-> grad[t]]]

\* Lines 435-440, std[name] = np.array(s).T for group i: timepoints x mapped
\* indices.
GroupStd(grad_all, vm, i, M) ==
    LET N == vm.ntimes
        s == [j \in 1..vm.mapped_sizes[i] |->
                SqrtDiag(ReshapeT(GradList(grad_all, i, j, M, N), M, N))]
    IN  [t \in 1..N |-> [j \in 1..vm.mapped_sizes[i] |-> s[j][t]]]

\* Lines 427-441: the dictionary std, one array per group name.
StdTable(vm, M) ==
    LET grad_all == Transpose201(GradientOfMapping(vm, M))
        names    == vm.mapped_names
    IN  [n \in {names[i] : i \in 1..Len(names)} |->
            GroupStd(grad_all, vm, CHOOSE i \in 1..Len(names) : names[i] = n, M)]

\* The propagated standard deviations: the table of lines 427-441, of the
\* derivatives of dyn.vm.free_to_mapped at x, with the covariance.
MappedStd(x, h) ==
    [fn |-> "std", x |-> x, f |-> Context(h), data |-> h["data"],
     table |-> StdTable(h["vm"], Len(x))]

\* The mapped sizes of n groups: all of the largest size, or growing from 1.
SizeChoices(n) ==
    {[i \in 1..n |-> MaxSize], [i \in 1..n |-> IF i < MaxSize THEN i ELSE MaxSize]}

ResIdle ==
    /\ heap = None /\ samples = None /\ res = None /\ born = None /\ nmut = 0
    /\ ret = [op |-> "none", val |-> None]
    /\ rpc = "idle"

\* A fitted dynMRS object and the init dictionary, before the result object
\* is constructed.
ResInit ==
    /\ \E names \in NameOrders, ntimes \in {1, MaxTimes} :
       \E sizes \in SizeChoices(Len(names)), behs \in [1..Len(names) -> Behaviours] :
          heap = InitHeap(names, sizes, behs, ntimes)
    /\ samples = None /\ res = None /\ born = None /\ nmut = 0
    /\ ret = [op |-> "none", val |-> None]
    /\ rpc = "fitted"

\* Lines 402-441, dynRes_newton.__init__(samples, dyn, init) with the optimum
\* vector; the constructor raises when free_to_mapped does.
NewtonInit ==
    /\ scenario = "res" /\ rpc = "fitted"
    /\ rpc' = "built"
    /\ ~HasOther(heap["vm"])
    /\ LET opt == [j \in 1..NFreeTotal(heap["vm"]) |-> SampleVal(1, j)]
           b   == BaseInit(<<opt>>, heap)
           r   == [b.res EXCEPT !.cls = "dynRes_newton",
                                !._cov_dyn = LapCov(opt, heap), !._std = MappedStd(opt, heap)]
       IN  /\ samples' = opt
           /\ heap' = b.heap
           /\ res' = r
           /\ born' = Returned(r, b.heap)
    /\ UNCHANGED <<ret, nmut>>
    /\ UNCHANGED <<scenario, cliVars, gradVars, numVars, plotVars>>

\* Lines 358-370, dynRes_mcmc.__init__(samples, dyn, init) with a sample matrix.
McmcInit ==
    /\ scenario = "res" /\ rpc = "fitted"
    /\ rpc' = "built"
    /\ \E n \in {MaxSamples} :
        LET mat == [s \in 1..n |-> [j \in 1..NFreeTotal(heap["vm"]) |-> SampleVal(s, j)]]
            b   == BaseInit(mat, heap)
        IN  /\ samples' = mat
            /\ heap' = b.heap
            /\ res' = [b.res EXCEPT !.cls = "dynRes_mcmc"]
            /\ born' = Returned(b.res, b.heap)
    /\ UNCHANGED <<ret, nmut>>
    /\ UNCHANGED <<scenario, cliVars, gradVars, numVars, plotVars>>

\* A read of the properties of the result object (none of the getters
\* assigns to self).
ReadProperties ==
    /\ scenario = "res" /\ rpc = "built"
    /\ ret' = [op |-> "properties",
               val |-> [Returned(res, heap) EXCEPT !.collected_results = None]]
    /\ UNCHANGED <<heap, samples, res, born, nmut, rpc>>
    /\ UNCHANGED <<scenario, cliVars, gradVars, numVars, plotVars>>

\* collected_results scaling the stored samples in place before it reads them.
CallCollectedResultsInPlace ==
    /\ scenario = "res" /\ rpc = "built"
    /\ res' = [res EXCEPT !._data = [s \in 1..Len(@) |-> [j \in 1..Len(@[s]) |-> 2 * @[s][j]]]]
    /\ ret' = [op |-> "collected_results", val |-> CollectedResults(res', heap)]
    /\ UNCHANGED <<heap, samples, born, nmut, rpc>>
    /\ UNCHANGED <<scenario, cliVars, gradVars, numVars, plotVars>>

\* A call of collected_results(to_file=None).
CallCollectedResults ==
    /\ scenario = "res" /\ rpc = "built"
    /\ ret' = [op |-> "collected_results", val |-> CollectedResults(res, heap)]
    /\ UNCHANGED <<heap, samples, res, born, nmut, rpc>>
    /\ UNCHANGED <<scenario, cliVars, gradVars, numVars, plotVars>>

\* The caller changes, in place, one of the live objects: a behaviour of the
\* variable mapping, the time variable, the spectrum list, the data, or the
\* trajectory init['x']; or binds init['x'] to another array.
Mutate ==
    /\ scenario = "res" /\ rpc = "built" /\ nmut < MaxMutations
    /\ nmut' = nmut + 1
    /\ \/ heap' = [heap EXCEPT !["vm"].Parameters[heap["vm"].mapped_names[1]] =
                        IF @.tag = "fixed" THEN Variable ELSE Fixed]
       \/ heap' = [heap EXCEPT !["time_var"][1] = @ + 1]
       \/ heap' = [heap EXCEPT !["mrs_list"][1].names = Append(@, "Mac")]
       \/ heap' = [heap EXCEPT !["data"][1] = @ + 1]
       \/ heap' = [heap EXCEPT !["init_x"][1][1][1] = @ + 1]
       \/ heap' = [heap EXCEPT !["init"].x = "init_x2",
                               !["init_x2"] = [t \in 1..heap["vm"].ntimes |-> <<>>]]
    /\ UNCHANGED <<samples, res, ret, born, rpc>>
    /\ UNCHANGED <<scenario, cliVars, gradVars, numVars, plotVars>>

----------------------------------------------------------------------------
(* misc.hessian, called on f(x) = sum(x_i^2).                              *)
(* An array element is base + dh*eps + dg*step: an integer, plus hessian's *)
(* step eps when dh = 1, plus gradient's step of that coordinate when      *)
(* dg = 1.  Both steps lie strictly between 0 and 1 for the coordinates    *)
(* used here (eps is ||gd_0|| * 2^-23, step is |x_i| * 2^-23).             *)

HessInputs == {2, 3}

HVal(n) == [base |-> n, dh |-> 0, dg |-> 0]

\* Line 94 and lines 97-107 for an f that does not raise: entry i of the
\* array gradient returns is (f1 - f0)/step, f0 being f at the float copy of
\* x and f1 being f at the copy with coordinate i moved by the step.
GradientAt(x) ==
    [i \in 1..Len(x) |-> [f1 |-> [x EXCEPT ![i].dg = 1], f0 |-> x]]

\* x[i] = v for an array of the given dtype: an int64 array keeps the
\* integer part of v (numpy casts on assignment), a float64 array keeps v.
StoreElement(dtype, v) ==
    IF dtype = "int64" THEN [base |-> v.base, dh |-> 0, dg |-> 0] ELSE v

HZero == [k |-> "zero", g1 |-> <<>>, g0 |-> <<>>]

\* Line 136: entry r of (gd_1 - gd_0)/eps.  It is 0.0 when the two gradient
\* entries come from the same evaluations, and a difference quotient
\* otherwise.
HessEntry(g1, g0) ==
    IF g1 = g0 THEN HZero ELSE [k |-> "quot", g1 |-> <<g1>>, g0 |-> <<g0>>]

HessIdle == hcall = [pc |-> "idle"]

\* The call hessian(x, f): the caller's array is an int64 or a float64 array.
HessInit ==
    \E n \in 1..MaxN : \E x \in [1..n -> HessInputs], dtype \in {"int64", "float64"} :
        hcall = [pc |-> "start", dtype |-> dtype,
                 x |-> [j \in 1..n |-> HVal(x[j])],
                 gd_0 |-> <<>>, i |-> 0, hessian |-> <<>>]

\* Lines 126-131: N, the zero matrix, gd_0 and eps.
HessStart ==
    /\ scenario = "hess" /\ hcall.pc = "start"
    /\ hcall' = [hcall EXCEPT !.pc = "loop",
                              !.gd_0 = GradientAt(hcall.x),
                              !.i = 1,
                              !.hessian = [r \in 1..Len(hcall.x) |->
                                             [c \in 1..Len(hcall.x) |-> HZero]]]
    /\ UNCHANGED <<scenario, cliVars, gradVars, resVars, lcall, ccall, ucall, plotVars>>

\* Lines 132-137, one iteration: xx0 = 1.*x[i]; x[i] = xx0 + eps;
\* gd_1 = gradient(x, f); column i of the matrix; x[i] = xx0.
HessColumn ==
    /\ scenario = "hess" /\ hcall.pc = "loop" /\ hcall.i <= Len(hcall.x)
    /\ LET i    == hcall.i
           xx0  == hcall.x[i]
           x1   == [hcall.x EXCEPT ![i] = StoreElement(hcall.dtype, [xx0 EXCEPT !.dh = 1])]
           gd_1 == GradientAt(x1)
       IN  hcall' = [hcall EXCEPT
                        !.hessian = [r \in 1..Len(hcall.x) |->
                                       [@[r] EXCEPT ![i] = HessEntry(gd_1[r], hcall.gd_0[r])]],
                        !.x = [x1 EXCEPT ![i] = StoreElement(hcall.dtype, xx0)],
                        !.i = i + 1]
    /\ UNCHANGED <<scenario, cliVars, gradVars, resVars, lcall, ccall, ucall, plotVars>>

\* Line 138: return hessian.
HessReturn ==
    /\ scenario = "hess" /\ hcall.pc = "loop" /\ hcall.i > Len(hcall.x)
    /\ hcall' = [hcall EXCEPT !.pc = "returned"]
    /\ UNCHANGED <<scenario, cliVars, gradVars, resVars, lcall, ccall, ucall, plotVars>>

----------------------------------------------------------------------------
(* float64 results of divisions and square roots, as misc.calculate_lap_cov, *)
(* misc.calculate_crlb and the uncertainty part of dynRes_newton need them: *)
(* a finite value is an exact rational num/den (den > 0), the others are    *)
(* the two infinities (num = 1 or -1) and NaN.  numpy returns them from a   *)
(* division by zero or the square root of a negative number; it warns and   *)
(* does not raise.                                                          *)

Fin(n, d) == [k |-> "fin", num |-> Rat(n, d).num, den |-> Rat(n, d).den]
Infinite(s) == [k |-> "inf", num |-> s, den |-> 0]
QNaN == [k |-> "nan", num |-> 0, den |-> 0]

Sign(n) == IF n > 0 THEN 1 ELSE IF n < 0 THEN -1 ELSE 0
Abs(n) == IF n < 0 THEN -n ELSE n

IsFinite(a) == a.k = "fin"

\* a * b.
XMul(a, b) ==
    CASE a.k = "nan" \/ b.k = "nan" -> QNaN
      [] a.k = "fin" /\ b.k = "fin" -> Fin(a.num * b.num, a.den * b.den)
      [] OTHER -> IF a.num = 0 \/ b.num = 0 THEN QNaN
                  ELSE Infinite(Sign(a.num) * Sign(b.num))

\* a - b.
XSub(a, b) ==
    CASE a.k = "nan" \/ b.k = "nan" -> QNaN
      [] a.k = "fin" /\ b.k = "fin" -> Fin(a.num * b.den - b.num * a.den, a.den * b.den)
      [] a.k = "inf" /\ b.k = "inf" -> IF a.num = b.num THEN QNaN ELSE a
      [] a.k = "inf" -> a
      [] OTHER -> Infinite(-b.num)

\* a / b.
XDiv(a, b) ==
    CASE a.k = "nan" \/ b.k = "nan" -> QNaN
      [] a.k = "fin" /\ b.k = "fin" ->
            IF b.num # 0 THEN Fin(Sign(b.num) * a.num * b.den, a.den * Abs(b.num))
            ELSE IF a.num = 0 THEN QNaN ELSE Infinite(Sign(a.num))
      [] a.k = "inf" /\ b.k = "inf" -> QNaN
      [] a.k = "inf" -> Infinite(a.num * (IF b.num < 0 THEN -1 ELSE 1))
      [] OTHER -> Fin(0, 1)

\* np.var of a real vector: the mean of the squared deviations from the mean.
Var(r) ==
    LET n  == Len(r)
        s  == SumSeq(r)
        sq == SumSeq([j \in 1..n |-> (n * r[j] - s) * (n * r[j] - s)])
    IN  Fin(sq, n * n * n)

----------------------------------------------------------------------------
(* misc.calculate_lap_cov(x, f, data).  The call is given by what f and    *)
(* data make of it: the vector data - f(x) and the array gradient(x, f),   *)
(* one row of complex numbers per parameter.                               *)

Cplx(re, im) == [re |-> re, im |-> im]

\* Rows of the gradient: zero, and three rows of which the first and the
\* last are neither parallel nor orthogonal.
GradRows ==
    {<<Cplx(0, 0), Cplx(0, 0)>>, <<Cplx(1, 0), Cplx(0, 1)>>,
     <<Cplx(0, 2), Cplx(1, 0)>>, <<Cplx(1, 0), Cplx(1, 0)>>}

\* data - f(x): no noise at all, and two noisy residuals.
Residuals == {<<0, 0>>, <<1, -1>>, <<0, 1>>}

LapSizes == {1, 2}

\* Lines 236-237: np.sum(fij) for the rows ri = grad[i] and rj = grad[j].
SumFij(ri, rj) ==
    SumSeq([k \in 1..Len(ri) |-> ri[k].re * rj[k].re + ri[k].im * rj[k].im])

\* np.linalg.pinv of a symmetric matrix of finite entries with one or two
\* rows: the inverse when there is one, C / trace(C)^2 when the rank is one,
\* and the zero matrix for the zero matrix.
Pinv(C) ==
    IF Len(C) = 1
    THEN <<<<IF C[1][1].num = 0 THEN Fin(0, 1) ELSE XDiv(Fin(1, 1), C[1][1])>>>>
    ELSE LET det == XSub(XMul(C[1][1], C[2][2]), XMul(C[1][2], C[2][1]))
             tr  == XSub(C[1][1], XSub(Fin(0, 1), C[2][2]))
         IN  IF det.num # 0
             THEN <<<<XDiv(C[2][2], det), XDiv(XSub(Fin(0, 1), C[1][2]), det)>>,
                    <<XDiv(XSub(Fin(0, 1), C[2][1]), det), XDiv(C[1][1], det)>>>>
             ELSE IF tr.num # 0
             THEN [i \in 1..2 |-> [j \in 1..2 |-> XDiv(C[i][j], XMul(tr, tr))]]
             ELSE [i \in 1..2 |-> [j \in 1..2 |-> Fin(0, 1)]]

AllFinite(C) == \A i \in 1..Len(C) : \A j \in 1..Len(C[i]) : IsFinite(C[i][j])

LapIdle == lcall = [pc |-> "idle"]

LapInit ==
    \E n \in LapSizes : \E grad \in [1..n -> GradRows], resid \in Residuals :
        lcall = [pc |-> "fisher", N |-> n, grad |-> grad, resid |-> resid,
                 sig2 |-> QNaN, C |-> <<>>]

\* Lines 229-237: C[i,j] = np.sum(fij)/sig2.
LapFisher ==
    /\ scenario = "lapcov" /\ lcall.pc = "fisher"
    /\ LET sig2 == Var(lcall.resid)
       IN  lcall' = [lcall EXCEPT
                        !.pc = "pinv",
                        !.sig2 = sig2,
                        !.C = [i \in 1..lcall.N |-> [j \in 1..lcall.N |->
                                 XDiv(Fin(SumFij(lcall.grad[i], lcall.grad[j]), 1), sig2)]]]
    /\ UNCHANGED <<scenario, cliVars, gradVars, resVars, hcall, ccall, ucall, plotVars>>

\* Lines 239-240: C = np.linalg.pinv(C); return C.  The singular value
\* decomposition of a matrix with an infinite or NaN entry does not
\* converge: numpy raises LinAlgError, or, with some LAPACK builds, returns
\* NaN.
LapPinv ==
    /\ scenario = "lapcov" /\ lcall.pc = "pinv"
    /\ IF AllFinite(lcall.C)
       THEN lcall' = [lcall EXCEPT !.pc = "returned", !.C = Pinv(lcall.C)]
       ELSE \/ lcall' = [lcall EXCEPT !.pc = "raised"]
            \/ lcall' = [lcall EXCEPT !.pc = "returned",
                            !.C = [i \in 1..lcall.N |-> [j \in 1..lcall.N |-> QNaN]]]
    /\ UNCHANGED <<scenario, cliVars, gradVars, resVars, hcall, ccall, ucall, plotVars>>

----------------------------------------------------------------------------
(* misc.calculate_crlb(x, f, data).  For a vector-valued f the array       *)
(* gradient returns has one row per parameter (two dimensions); for a      *)
(* scalar-valued f it has one number per parameter (one dimension).        *)

GradScalars == {Cplx(0, 0), Cplx(1, 0), Cplx(0, 2)}

\* np.abs(g)**2 of a complex number.
AbsSq(g) == g.re * g.re + g.im * g.im

CrlbIdle == ccall = [pc |-> "idle"]

CrlbInit ==
    \E n \in LapSizes, resid \in Residuals :
        \/ \E grad \in [1..n -> GradRows] :
              ccall = [pc |-> "grad", N |-> n, ndim |-> 2, grad |-> grad,
                       resid |-> resid, sig2 |-> QNaN, crlb |-> <<>>]
        \/ \E grad \in [1..n -> GradScalars] :
              ccall = [pc |-> "grad", N |-> n, ndim |-> 1, grad |-> grad,
                       resid |-> resid, sig2 |-> QNaN, crlb |-> <<>>]

\* Lines 210-211: sig2 = np.var(data - f(x)); grad = gradient(x, f).
CrlbGrad ==
    /\ scenario = "crlb" /\ ccall.pc = "grad"
    /\ ccall' = [ccall EXCEPT !.pc = "sum", !.sig2 = Var(ccall.resid)]
    /\ UNCHANGED <<scenario, cliVars, gradVars, resVars, hcall, lcall, ucall, plotVars>>

\* Lines 212-214: crlb = 1/(np.sum(np.abs(grad)**2, axis=1)/sig2); return.
\* np.sum(..., axis=1) of a one-dimensional array raises AxisError.
CrlbSum ==
    /\ scenario = "crlb" /\ ccall.pc = "sum"
    /\ IF ccall.ndim < 2
       THEN ccall' = [ccall EXCEPT !.pc = "raised"]
       ELSE ccall' = [ccall EXCEPT
                        !.pc = "returned",
                        !.crlb = [i \in 1..ccall.N |->
                                    XDiv(Fin(1, 1),
                                         XDiv(Fin(SumSeq([k \in 1..Len(ccall.grad[i]) |->
                                                            AbsSq(ccall.grad[i][k])]), 1),
                                              ccall.sig2))]]
    /\ UNCHANGED <<scenario, cliVars, gradVars, resVars, hcall, lcall, ucall, plotVars>>

----------------------------------------------------------------------------
(* dynRes_newton.__init__, lines 421-425: the free-parameter standard      *)
(* deviations and correlations computed from the matrix that               *)
(* calculate_lap_cov returned.  The matrix is the input here; numerical    *)
(* noise can leave a negative number on its diagonal.                      *)

CovDiagonal == {-4, 0, 4, 9}
CovOffDiagonal == {-2, 0, 3}

\* The integer square root of a perfect square (the integer part otherwise).
ISqrt(n) == CHOOSE r \in 0..n : r * r <= n /\ (r + 1) * (r + 1) > n

\* math.sqrt, which raises ValueError for a negative number.
SqrtRaises(a) == a.k = "fin" /\ a.num < 0

\* np.sqrt: NaN for a negative number (an 'invalid value' warning, ignored
\* at lines 422-423), the root otherwise.
NpSqrt(a) ==
    CASE a.k = "nan" -> QNaN
      [] a.k = "inf" -> IF a.num > 0 THEN a ELSE QNaN
      [] OTHER       -> IF a.num < 0 THEN QNaN ELSE Fin(ISqrt(a.num), ISqrt(a.den))

UncIdle == ucall = [pc |-> "idle"]

UncInit ==
    \E n \in LapSizes :
    \E diag \in [1..n -> CovDiagonal], off \in [1..n -> CovOffDiagonal] :
        ucall = [pc |-> "std", N |-> n,
                 _cov_dyn |-> [i \in 1..n |-> [j \in 1..n |->
                                 IF i = j THEN Fin(diag[i], 1) ELSE Fin(off[i], 1)]],
                 _std_dyn |-> <<>>, _corr_dyn |-> <<>>]

\* The standard deviations taken with a square root that raises.
UncStdMathSqrt ==
    /\ scenario = "unc" /\ ucall.pc = "std"
    /\ IF \E i \in 1..ucall.N : SqrtRaises(ucall._cov_dyn[i][i])
       THEN ucall' = [ucall EXCEPT !.pc = "raised"]
       ELSE ucall' = [ucall EXCEPT !.pc = "corr",
                         !._std_dyn = [i \in 1..ucall.N |-> NpSqrt(ucall._cov_dyn[i][i])]]
    /\ UNCHANGED <<scenario, cliVars, gradVars, resVars, hcall, lcall, ccall, plotVars>>

\* Lines 421-424: crlb_dyn = np.diagonal(self._cov_dyn);
\* self._std_dyn = np.sqrt(crlb_dyn).
UncStd ==
    /\ scenario = "unc" /\ ucall.pc = "std"
    /\ ucall' = [ucall EXCEPT !.pc = "corr",
                    !._std_dyn = [i \in 1..ucall.N |-> NpSqrt(ucall._cov_dyn[i][i])]]
    /\ UNCHANGED <<scenario, cliVars, gradVars, resVars, hcall, lcall, ccall, plotVars>>

\* Line 425: self._corr_dyn = self._cov_dyn / (std[:, newaxis] * std[newaxis, :]).
UncCorr ==
    /\ scenario = "unc" /\ ucall.pc = "corr"
    /\ ucall' = [ucall EXCEPT !.pc = "done",
                    !._corr_dyn = [i \in 1..ucall.N |-> [j \in 1..ucall.N |->
                                     XDiv(ucall._cov_dyn[i][j],
                                          XMul(ucall._std_dyn[i], ucall._std_dyn[j]))]]]
    /\ UNCHANGED <<scenario, cliVars, gradVars, resVars, hcall, lcall, ccall, plotVars>>

----------------------------------------------------------------------------
(* subplot_shape, and the grid plot_spectra fills with it.                 *)

\* Lines 31-35 with the test of line 31 left out: every iteration adds a row.
GrowRowOnly(col, row, counter) ==
    [col |-> col, row |-> row + 1, counter |-> counter + 1]

\* Lines 31-35: one iteration of the while loop; an odd counter adds a
\* column, an even one a row.
Grow(col, row, counter) ==
    IF counter % 2 = 1
    THEN [col |-> col + 1, row |-> row, counter |-> counter + 1]
    ELSE [col |-> col, row |-> row + 1, counter |-> counter + 1]

PlotIdle == scall = [pc |-> "idle"]

\* The call subplot_shape(plots_needed) made by plot_spectra; lines 27-29.
PlotInit ==
    \E n \in 1..MaxPlots :
        scall = [pc |-> "while", plots_needed |-> n,
                 col |-> ISqrt(n), row |-> ISqrt(n), counter |-> 0,
                 rows |-> 0, cols |-> 0, idx |-> 0, placed |-> <<>>]

\* Lines 30-35: the loop test holds and the body runs.
ShapeGrow ==
    /\ scenario = "plot" /\ scall.pc = "while"
    /\ scall.col * scall.row < scall.plots_needed
    /\ LET g == Grow(scall.col, scall.row, scall.counter)
       IN  scall' = [scall EXCEPT !.col = g.col, !.row = g.row, !.counter = g.counter]
    /\ UNCHANGED <<scenario, cliVars, gradVars, resVars, numVars, fcall>>

\* Line 36 and lines 288-295: the loop test fails, (col, row) is returned,
\* the caller unpacks it as row, col and creates a grid of that shape.
ShapeReturn ==
    /\ scenario = "plot" /\ scall.pc = "while"
    /\ ~(scall.col * scall.row < scall.plots_needed)
    /\ scall' = [scall EXCEPT !.pc = "place", !.rows = scall.col, !.cols = scall.row]
    /\ UNCHANGED <<scenario, cliVars, gradVars, resVars, numVars, fcall>>

\* Lines 297-305: plot idx goes to row idx // col + 1, column idx % col + 1
\* (the caller's col); the loop ends after len(sp_titles) plots.
PlacePlot ==
    /\ scenario = "plot" /\ scall.pc = "place"
    /\ IF scall.idx < scall.plots_needed
       THEN scall' = [scall EXCEPT
                        !.placed = Append(@, [row |-> (scall.idx \div scall.cols) + 1,
                                              col |-> (scall.idx % scall.cols) + 1]),
                        !.idx = @ + 1]
       ELSE scall' = [scall EXCEPT !.pc = "done"]
    /\ UNCHANGED <<scenario, cliVars, gradVars, resVars, numVars, fcall>>

----------------------------------------------------------------------------
(* identifyUnlikeFIDs.  The metric of a FID is the norm of its difference  *)
(* to the target; the target comes from get_target_FID, FIDToSpec and      *)
(* extract_spectrum, which are outside these files, so the metrics of an   *)
(* iteration are any non-negative numbers.  sdlimit is a multiple of 1/2.  *)

\* The lists handed in: n FIDs that alternate between two contents, or n
\* equal ones.
FIDLists(n) ==
    {[i \in 1..n |-> IF i % 2 = 1 THEN "fidA" ELSE "fidB"], [i \in 1..n |-> "fidA"]}
MetricValues == {0, 1, 3}
SdLimits2 == {0, 1, 2, 4}     \* 2 * sdlimit: 0, 0.5, 1, 2

SumSq(q) == SumSeq([i \in 1..Len(q) |-> q[i] * q[i]])

\* n * (m - mean(metric)) and n^2 * var(metric), n = len(metric).
DevN(metric, m) == Len(metric) * m - SumSeq(metric)
VarNN(metric) == Len(metric) * SumSq(metric) - SumSeq(metric) * SumSeq(metric)

\* The test with >= and <= in place of > and <.
RejectedInclusive(metric, m, sd2) ==
    \/ DevN(metric, m) >= 0 /\ 4 * DevN(metric, m) * DevN(metric, m) >= sd2 * sd2 * VarNN(metric)
    \/ DevN(metric, m) <= 0 /\ 4 * DevN(metric, m) * DevN(metric, m) >= sd2 * sd2 * VarNN(metric)

\* Line 48: m > sdlimit*std + avg or m < -(sdlimit*std) + avg, both sides
\* multiplied by n and squared (sdlimit*std >= 0).
Rejected(metric, m, sd2) ==
    \/ DevN(metric, m) > 0 /\ 4 * DevN(metric, m) * DevN(metric, m) > sd2 * sd2 * VarNN(metric)
    \/ DevN(metric, m) < 0 /\ 4 * DevN(metric, m) * DevN(metric, m) > sd2 * sd2 * VarNN(metric)

\* Lines 46-53: the loop over enumerate(zip(FIDList, metric)) from position
\* iDx on, appending to the four lists.
RECURSIVE Classify(_, _, _, _, _)
Classify(FIDList, metric, sd2, iDx, acc) ==
    IF iDx >= Len(FIDList) THEN acc
    ELSE IF Rejected(metric, metric[iDx + 1], sd2)
         THEN Classify(FIDList, metric, sd2, iDx + 1,
                       [acc EXCEPT !.badFIDs = Append(@, FIDList[iDx + 1]),
                                   !.rmIndicies = Append(@, iDx)])
         ELSE Classify(FIDList, metric, sd2, iDx + 1,
                       [acc EXCEPT !.goodFIDs = Append(@, FIDList[iDx + 1]),
                                   !.keepIndicies = Append(@, iDx)])

EmptyLists == [goodFIDs |-> <<>>, badFIDs |-> <<>>, rmIndicies |-> <<>>, keepIndicies |-> <<>>]

UnlikeIdle == fcall = [pc |-> "idle"]

\* The call identifyUnlikeFIDs(FIDList, ..., sdlimit, iterations); lines 26-35.
UnlikeInit ==
    \E n \in 1..MaxFIDs : \E fids \in FIDLists(n) :
    \E sd2 \in SdLimits2 : \E its \in 0..MaxIterations :
        fcall = [pc |-> "for", FIDList |-> fids, sd2 |-> sd2, iterations |-> its,
                 idx |-> 0, metric |-> <<>>, lists |-> EmptyLists,
                 bound |-> FALSE, previous |-> EmptyLists]

\* Lines 38-59: one iteration: the metric of every FID of the list, the four
\* lists built anew, the new target from goodFIDs (a call that, for an empty
\* goodFIDs, either returns or raises).
UnlikeIteration ==
    /\ scenario = "unlike" /\ fcall.pc = "for"
    /\ fcall.idx < fcall.iterations
    /\ \E metric \in [1..Len(fcall.FIDList) -> MetricValues] :
         LET lists == Classify(fcall.FIDList, metric, fcall.sd2, 0, EmptyLists)
         IN  \E ok \in (IF lists.goodFIDs = <<>> THEN BOOLEAN ELSE {TRUE}) :
               fcall' = [fcall EXCEPT !.pc = IF ok THEN "for" ELSE "raised",
                                      !.idx = @ + 1,
                                      !.metric = metric,
                                      !.lists = lists,
                                      !.bound = TRUE,
                                      !.previous = fcall.lists]
    /\ UNCHANGED <<scenario, cliVars, gradVars, resVars, numVars, scall>>

\* Line 62: the return after the last iteration; without any iteration the
\* names it reads are unbound.
UnlikeReturn ==
    /\ scenario = "unlike" /\ fcall.pc = "for"
    /\ fcall.idx >= fcall.iterations
    /\ fcall' = [fcall EXCEPT !.pc = IF fcall.bound THEN "returned" ELSE "raised"]
    /\ UNCHANGED <<scenario, cliVars, gradVars, resVars, numVars, scall>>

----------------------------------------------------------------------------

Init ==
    /\ scenario \in {"cli", "grad", "res", "hess", "lapcov", "crlb", "unc", "plot", "unlike"}
    /\ IF scenario = "cli" THEN CliInit ELSE CliIdle
    /\ IF scenario = "grad" THEN GradInit ELSE GradIdle
    /\ IF scenario = "res" THEN ResInit ELSE ResIdle
    /\ IF scenario = "hess" THEN HessInit ELSE HessIdle
    /\ IF scenario = "lapcov" THEN LapInit ELSE LapIdle
    /\ IF scenario = "crlb" THEN CrlbInit ELSE CrlbIdle
    /\ IF scenario = "unc" THEN UncInit ELSE UncIdle
    /\ IF scenario = "plot" THEN PlotInit ELSE PlotIdle
    /\ IF scenario = "unlike" THEN UnlikeInit ELSE UnlikeIdle

Next ==
    \/ CheckOutput
    \/ Prompt
    \/ Delete
    \/ ReadData
    \/ CheckH2O
    \/ CheckSpectrum
    \/ Construct
    \/ Initialise
    \/ Fit
    \/ Save
    \/ Report
    \/ GradAstype
    \/ GradEps
    \/ GradF0
    \/ GradF1
    \/ GradAppend
    \/ NewtonInit
    \/ McmcInit
    \/ ReadProperties
    \/ CallCollectedResults
    \/ Mutate
    \/ HessStart
    \/ HessColumn
    \/ HessReturn
    \/ LapFisher
    \/ LapPinv
    \/ CrlbGrad
    \/ CrlbSum
    \/ UncStd
    \/ UncCorr
    \/ ShapeGrow
    \/ ShapeReturn
    \/ PlacePlot
    \/ UnlikeIteration
    \/ UnlikeReturn

Spec == Init /\ [][Next]_vars

\* The calls of subplot_shape from plot_spectra alone.  Both are sequential
\* code: a step that can be taken is taken.
PlotOnlyInit ==
    /\ scenario = "plot"
    /\ CliIdle /\ GradIdle /\ ResIdle /\ HessIdle /\ LapIdle /\ CrlbIdle /\ UncIdle
    /\ PlotInit
    /\ UnlikeIdle

PlotNext ==
    \/ ShapeGrow
    \/ ShapeReturn
    \/ PlacePlot

PlotSpec == PlotOnlyInit /\ [][PlotNext]_vars /\ WF_vars(PlotNext)

----------------------------------------------------------------------------
(* Claims about fsl_dynmrs.main *)

InTrace(e) == \E j \in 1..Len(trace) : trace[j] = e

\* C1: with --h2o the run is rejected with NotImplementedError before anything
\* else is executed: no folder is deleted or created and no data is read
\* before the rejection.
C1_H2ORejectedFirst ==
    (scenario = "cli" /\ args.h2o) =>
        \A j \in 1..Len(trace) : trace[j] = "NotImplementedError"

\* C2: an existing output folder is deleted only with --overwrite or after the
\* answer Y or y; any other answer exits with the folder untouched and nothing
\* read, fitted or written; a folder that does not exist is created without a
\* prompt.
C2_DeleteOnlyOnConsent ==
    scenario = "cli" =>
        /\ InTrace("rmtree") =>
              env.is_dir /\ (args.overwrite \/ response \in {"Y", "y"})
        /\ (response # None /\ response \notin {"Y", "y"}) =>
              /\ pc = "exited"
              /\ outdir = "original"
              /\ trace = <<"prompt", "exit">>
        /\ pc = "exited" => (response # None /\ response \notin {"Y", "y"})
        /\ (env.is_dir /\ ~args.overwrite /\ response \in {"Y", "y"}) =>
              (pc = "delete" \/ InTrace("rmtree"))
        /\ (~env.is_dir /\ pc # "check_output") =>
              /\ outdir = "fresh"
              /\ trace[1] = "mkdir"
              /\ ~InTrace("prompt") /\ ~InTrace("rmtree")
              /\ response = None

\* The folder existed, the answer was a lower-case y, and the run went on to
\* delete the folder and finish.
C2_Witness ==
    /\ scenario = "cli" /\ pc = "done"
    /\ env.is_dir /\ ~args.overwrite /\ response = "y"
    /\ InTrace("rmtree")

----------------------------------------------------------------------------
(* Claims about misc.gradient *)

\* C9: gradient leaves the caller's vector as it was, at every point of the
\* call, when it returns and when f raises part-way.
C9_CallerVectorUntouched ==
    scenario = "grad" => garr["caller"] = gx0

\* f raised at its second call of an iteration, with the working vector
\* perturbed in coordinate gi.
C9_Witness ==
    /\ scenario = "grad" /\ gpc = "raised"
    /\ gcalls >= 2
    /\ garr[gref][gi] # gxx0

StepKnown == scenario = "grad" /\ gpc \in {"f0", "f1", "append"}

----------------------------------------------------------------------------
(* Claims about the result classes *)

Built == scenario = "res" /\ rpc = "built"

IsolatedProperties ==
    {"x", "mapped_parameters", "mapped_names", "free_names", "collected_results",
     "cov_dyn", "std"}

\* C3: once a result object is constructed from dyn, no later mutation of dyn
\* (spectrum list, variable mapping, time variable, data) changes what x,
\* mapped_parameters, mapped_names, free_names, collected_results, cov_dyn
\* and std return.
C3_ResultIsolatedFromDyn ==
    Built => \A f \in IsolatedProperties : Returned(res, heap)[f] = born[f]

\* The caller has changed a behaviour of the live variable mapping after the
\* construction, so the live mapping and the result's copy differ.
C3_Witness ==
    /\ Built /\ nmut >= 1
    /\ heap["vm"].Parameters # heap[DynOf(res, heap).vm].Parameters

\* C4: after construction, a caller mutating the trajectory init['x'] that was
\* passed to the constructor does not change what mapped_parameters_init
\* returns.
C4_InitSnapshotFrozen ==
    Built => MappedParametersInit(res, heap) = born.mapped_parameters_init

\* C5: collected_results(to_file=None) and the property reads are pure: a step
\* that returns from one of them leaves the result object and every object it
\* holds unchanged, and every call of collected_results on the same result
\* object returns the same table.
C5_CollectedResultsPure ==
    /\ [][(Built /\ ret'.op # "none" /\ (ret'.op # ret.op \/ ret'.val # ret.val))
             => (res' = res /\ heap' = heap /\ samples' = samples)]_vars
    /\ []((Built /\ ret.op = "collected_results") => ret.val = born.collected_results)

\* collected_results has returned after the caller mutated the live objects.
C5_Witness ==
    /\ Built /\ nmut >= 1
    /\ ret.op = "collected_results"
    /\ ret.val.ok

\* The value columns a group of recognised behaviour gets, by behaviour.
ExpectedValueKeys(vm, i) ==
    LET beh == vm.Parameters[vm.mapped_names[i]]
    IN  CASE beh.tag = "fixed"    -> <<"Values">>
          [] beh.tag = "variable" -> [t \in 1..vm.ntimes |-> "t" \o IntStr(t - 1)]
          [] OTHER                -> beh.params

LabelKeys == {"name", "metab"}

\* Entry e of group i has exactly one label column, the one the group's name
\* calls for.
OneLabelColumn(vm, i, e, metab) ==
    LET name == vm.mapped_names[i]
    IN  /\ Cardinality({k \in 1..Len(e) : e[k].key \in LabelKeys}) = 1
        /\ \E k \in 1..Len(e) :
              IF name = "conc"
              THEN e[k].key = "metab" /\ e[k].val = metab
              ELSE /\ e[k].key = "name"
                   /\ e[k].val = [x \in 1..vm.mapped_sizes[i] |-> name \o "_" \o IntStr(x - 1)]

\* Entry e of group i has, besides its label column, exactly the value columns
\* of its behaviour, in order, each as long as the group's mapped size.
ValueColumns(vm, i, e) ==
    LET vals == SelectSeq(e, LAMBDA c : c.key \notin LabelKeys)
    IN  /\ [k \in 1..Len(vals) |-> vals[k].key] = ExpectedValueKeys(vm, i)
        /\ \A k \in 1..Len(vals) : Len(vals[k].val) = vm.mapped_sizes[i]

Recognised(vm, i) == vm.Parameters[vm.mapped_names[i]].tag \in {"fixed", "variable", "dynamic"}

TableReturned == Built /\ ret.op = "collected_results"

C7_XIsColumnMean ==
    Built =>
        LET x == X(res)
            n == Len(res._data)
        IN  /\ Len(x) = Len(FreeNamesProp(res, heap))
            /\ \A j \in 1..Len(x) :
                  /\ x[j].den > 0
                  /\ x[j].num * n = x[j].den * SumSeq([s \in 1..n |-> res._data[s][j]])
            /\ res.cls = "dynRes_newton" =>
                  /\ n = 1
                  /\ Len(x) = Len(samples)
                  /\ \A j \in 1..Len(x) : x[j] = [num |-> samples[j], den |-> 1]

\* An MCMC result with several rows whose mean is not one of the rows.
C7_Witness ==
    /\ Built /\ res.cls = "dynRes_mcmc"
    /\ Len(res._data) >= 2
    /\ Len(X(res)) >= 2
    /\ \A s \in 1..Len(res._data) : X(res)[1] # [num |-> res._data[s][1], den |-> 1]

\* Columns of a flattened row that hold group i: after those of groups 1..i-1.
MappedOffset(vm, i) == SumSeq([j \in 1..(i - 1) |-> vm.mapped_sizes[j]])

\* C8: mapped_parameters applies free_to_mapped of the stored copy of the
\* mapping to every stored sample, in sample order; the array is samples x
\* timepoints x parameters, parameters being the sum of the mapped sizes; there
\* is one sample for a Newton result and one per posterior sample for an MCMC
\* result; row t is the concatenation of the groups' values at t in group order.
C8_MappedParametersShape ==
    (Built /\ MappedParameters(res, heap).ok) =>
        LET mp == MappedParameters(res, heap).val
            vm == heap[CopyAddr("vm")]
            tv == heap[CopyAddr("time_var")]
        IN  /\ Len(mp) = Len(res._data)
            /\ res.cls = "dynRes_newton" => Len(mp) = 1
            /\ res.cls = "dynRes_mcmc" => Len(mp) = Len(samples)
            /\ \A s \in 1..Len(mp) :
                  /\ Len(mp[s]) = vm.ntimes
                  /\ \A t \in 1..vm.ntimes :
                        /\ Len(mp[s][t]) = SumSeq(vm.mapped_sizes)
                        /\ \A i \in 1..Len(vm.mapped_names) :
                           \A k \in 1..vm.mapped_sizes[i] :
                              mp[s][t][MappedOffset(vm, i) + k]
                                 = FreeToMapped(vm, tv, res._data[s]).val[t][i][k]

\* An MCMC result over two groups and several timepoints, the second group
\* dynamic, read after the live time variable was changed.
C8_Witness ==
    /\ Built /\ res.cls = "dynRes_mcmc" /\ MappedParameters(res, heap).ok
    /\ Len(VmOf(res, heap).mapped_names) = 2
    /\ VmOf(res, heap).ntimes >= 2
    /\ VmOf(res, heap).Parameters[VmOf(res, heap).mapped_names[2]].tag = "dynamic"
    /\ heap["time_var"] # heap[CopyAddr("time_var")]
    /\ ret.op = "properties"

----------------------------------------------------------------------------
(* Claims about the numerical routines of utils/misc.py *)

\* C11: for f(x) = sum(x_i^2) the gradient at x = [2, 3] matches [4, 6] to
\* within the step and the hessian at the same point matches 2*I within
\* tolerance; the diagonal of the returned matrix is therefore not 0: every
\* diagonal entry is a difference quotient of two gradients taken at
\* different points.
C11_HessianOfSquares ==
    (scenario = "hess" /\ hcall.pc = "returned"
        /\ [j \in 1..Len(hcall.x) |-> hcall.x[j].base] = <<2, 3>>) =>
        \A i \in 1..Len(hcall.x) : hcall.hessian[i][i].k = "quot"

\* C12: calculate_lap_cov never raises on a degenerate problem (singular
\* Fisher matrix, all-zero gradient, zero noise variance): it returns an
\* N x N matrix whose entries may be NaN or infinite.
C12_LapCovNeverRaises ==
    scenario = "lapcov" =>
        /\ lcall.pc # "raised"
        /\ lcall.pc = "returned" =>
              /\ Len(lcall.C) = lcall.N
              /\ \A i \in 1..lcall.N : Len(lcall.C[i]) = lcall.N

\* C13: calculate_crlb returns one value per parameter i, equal to the
\* noise variance divided by the sum over the model outputs of |grad_i|^2,
\* and of length len(x), for a vector-valued and for a scalar-valued f.
C13_CrlbPerParameter ==
    scenario = "crlb" =>
        /\ ccall.pc # "raised"
        /\ ccall.pc = "returned" =>
              /\ Len(ccall.crlb) = ccall.N
              /\ \A i \in 1..ccall.N :
                    ccall.crlb[i] =
                        XDiv(Var(ccall.resid),
                             Fin(SumSeq([k \in 1..Len(ccall.grad[i]) |->
                                            AbsSq(ccall.grad[i][k])]), 1))

\* C14: in dynRes_newton construction std_dyn is the square root of the
\* diagonal of the covariance; a negative diagonal entry gives NaN in std_dyn
\* and in the row and the column of corr_dyn of that parameter, no exception
\* is raised, and the std_dyn of a parameter whose diagonal entry is not
\* negative is the root of that entry.
C14_NegativeDiagonalGivesNaN ==
    scenario = "unc" =>
        /\ ucall.pc # "raised"
        /\ ucall.pc = "done" =>
              \A i \in 1..ucall.N :
                 IF ucall._cov_dyn[i][i].num >= 0
                 THEN /\ IsFinite(ucall._std_dyn[i])
                      /\ ucall._std_dyn[i].num >= 0
                      /\ XMul(ucall._std_dyn[i], ucall._std_dyn[i]) = ucall._cov_dyn[i][i]
                 ELSE /\ ucall._std_dyn[i] = QNaN
                      /\ \A j \in 1..ucall.N : /\ ucall._corr_dyn[i][j] = QNaN
                                                /\ ucall._corr_dyn[j][i] = QNaN

\* A constructed result with two parameters: the first diagonal entry is
\* negative, the second is positive.
C14_Witness ==
    /\ scenario = "unc" /\ ucall.pc = "done" /\ ucall.N = 2
    /\ ucall._cov_dyn[1][1].num < 0
    /\ ucall._cov_dyn[2][2].num > 0
    /\ ucall._corr_dyn[2][2] = Fin(1, 1)

----------------------------------------------------------------------------
(* Claims about the uncertainties and the tables of the result classes *)

\* C15: for a dynRes_newton result std holds one entry per group name; the
\* entry of a group of mapped size S is an ntimes x S array whose element
\* (t, j) is the root of g Cov g^T, g being the row of the derivatives of
\* mapped parameter j of that group at timepoint t with respect to each of
\* the M free parameters, the free index running along g.
C15_StdPairsDerivatives ==
    (Built /\ res.cls = "dynRes_newton") =>
        LET vm  == VmOf(res, heap)
            std == Std(res, heap).values.table
            M   == Len(samples)
        IN  /\ DOMAIN std = {vm.mapped_names[i] : i \in 1..Len(vm.mapped_names)}
            /\ \A i \in 1..Len(vm.mapped_names) :
                  LET e == std[vm.mapped_names[i]]
                  IN  /\ Len(e) = vm.ntimes
                      /\ \A t \in 1..vm.ntimes :
                            /\ Len(e[t]) = vm.mapped_sizes[i]
                            /\ \A j \in 1..vm.mapped_sizes[i] :
                                  /\ Len(e[t][j].g) = M
                                  /\ \A ll \in 1..M :
                                        e[t][j].g[ll] =
                                            [free |-> ll, time |-> t, group |-> i, index |-> j]

\* A Newton result over two groups and two timepoints with more free
\* parameters than timepoints.
C15_Witness ==
    /\ Built /\ res.cls = "dynRes_newton"
    /\ Len(VmOf(res, heap).mapped_names) = 2
    /\ VmOf(res, heap).ntimes = 2
    /\ Len(samples) > 2
    /\ VmOf(res, heap).mapped_sizes[2] >= 2

\* Every group of the result's mapping is fixed or variable.
AllFixedOrVariable ==
    \A i \in 1..Len(VmOf(res, heap).mapped_names) :
        VmOf(res, heap).Parameters[VmOf(res, heap).mapped_names[i]].tag \in {"fixed", "variable"}

Consumed(vm, i) ==
    LET beh == vm.Parameters[vm.mapped_names[i]]
    IN  CASE beh.tag = "fixed"    -> vm.mapped_sizes[i]
          [] beh.tag = "variable" -> vm.mapped_sizes[i] * vm.ntimes
          [] beh.tag = "dynamic"  -> vm.mapped_sizes[i] * Len(beh.params)
          [] OTHER                -> 0

ReadBase(vm, i) == SumSeq([j \in 1..(i - 1) |-> Consumed(vm, j)])

\* The value cells of group i: the c-th value column (0-based position
\* col) and the mapped index k, with the index of x the cell stands for.
CellsOf(vm, i) ==
    LET beh  == vm.Parameters[vm.mapped_names[i]]
        size == vm.mapped_sizes[i]
        keys == ExpectedValueKeys(vm, i)
    IN  {[group |-> i, key |-> keys[c], k |-> k,
          src |-> ReadBase(vm, i) +
                  (CASE beh.tag = "fixed"    -> k
                     [] beh.tag = "variable" -> (c - 1) * size + k
                     [] OTHER                -> (k - 1) * Len(beh.params) + c)] :
            c \in 1..Len(keys), k \in 1..size}

AllCells(vm) ==
    UNION {CellsOf(vm, i) : i \in {j \in 1..Len(vm.mapped_names) : Recognised(vm, j)}}

\* The table holds, in the cell, element cell.src of x.
CellHolds(T, vm, x, cell) ==
    LET e == T.val[vm.mapped_names[cell.group]]
    IN  \E c \in 1..Len(e) :
           /\ e[c].key = cell.key
           /\ Len(e[c].val) = vm.mapped_sizes[cell.group]
           /\ cell.src \in 1..Len(x)
           /\ e[c].val[cell.k] = x[cell.src]

\* C17: collected_results partitions x: walking the groups in order it
\* reads contiguous slices that do not overlap; when every group has a
\* recognised behaviour each element of x is in exactly one cell of the table
\* and the final read offset is len(x); in a dynamic group the value for
\* mapped index k and coefficient i is x[base + k * |coefficients| + i].
C17_TablePartitionsX ==
    (TableReturned /\ ~HasOther(VmOf(res, heap))) =>
        LET vm == VmOf(res, heap)
            T  == ret.val
            x  == X(res)
        IN  /\ T.ok
            /\ T.counter = Len(x)
            /\ \A cell \in AllCells(vm) : CellHolds(T, vm, x, cell)
            /\ \A n \in 1..Len(x) :
                  Cardinality({cell \in AllCells(vm) : cell.src = n}) = 1

\* A table returned for a dynamic group of two mapped indices followed by a
\* variable group, over two timepoints.
C17_Witness ==
    /\ TableReturned
    /\ Len(VmOf(res, heap).mapped_names) = 2
    /\ VmOf(res, heap).ntimes >= 2
    /\ VmOf(res, heap).mapped_sizes = <<2, 2>>
    /\ VmOf(res, heap).Parameters[VmOf(res, heap).mapped_names[1]].tag = "dynamic"
    /\ VmOf(res, heap).Parameters[VmOf(res, heap).mapped_names[2]].tag = "variable"

----------------------------------------------------------------------------
(* Claims about the iterations of misc.gradient and the order of the steps *)
(* of fsl_dynmrs.                                                          *)

\* The step of coordinate i of the original vector.
StepOf(i) == StepFloor(MulEps32(FAbs(gx0[i])), gx0[i])

\* The original vector with coordinate i replaced by the float64 sum of the
\* coordinate and its step.
Perturbed(i) == [gx0 EXCEPT ![i] = FAdd(gx0[i], StepOf(i))]

IsFiniteFloat(v) == v.k \notin {"inf", "nan"}

\* The working vector equals the original at the start of every iteration,
\* the baseline is evaluated at the original vector, the perturbed point
\* differs from it in coordinate i only, and the returned list has one
\* quotient (f(perturbed_i) - f(x)) / step_i per coordinate.
GradientIterations ==
    /\ gpc \in {"eps", "f0", "f1", "returned"} => garr[gref] = gx0
    /\ gpc \in {"f1", "append"} => gf0 = gx0
    /\ gpc = "append" =>
          /\ geps = StepOf(gi)
          /\ gf1 = Perturbed(gi)
          /\ garr[gref] = Perturbed(gi)
          /\ IsFiniteFloat(gx0[gi]) => gf1[gi] # gx0[gi]
    /\ gpc \in {"eps", "f0", "f1", "append"} => Len(gout) = gi - 1
    /\ gpc = "returned" => Len(gout) = Len(gx0)
    /\ \A i \in 1..Len(gout) :
          gout[i] = [f1 |-> Perturbed(i), f0 |-> gx0, eps |-> StepOf(i)]

\* C19 (as stated): in gradient(x, f) the working vector equals the original
\* x at the start of every iteration, the baseline is f(x), the perturbed
\* point differs from x in coordinate i only and by exactly the step, and
\* the result has len(x) entries (f(x + step_i e_i) - f(x)) / step_i.
C19_PerturbedByExactlyTheStep ==
    (scenario = "grad" /\ \A i \in 1..Len(gx0) : IsFiniteFloat(gx0[i])) =>
        /\ GradientIterations
        /\ gpc = "append" => ExactSum(gx0[gi], geps)

\* C19 (amended): the same, with the perturbed coordinate being the float64
\* sum x_i + step_i, which differs from x_i for a finite x_i but not always
\* by the step.
C19_PerturbedByRoundedStep ==
    scenario = "grad" => GradientIterations

\* gradient returned for a vector of two coordinates, the second of which is
\* 1 + 2^-52: its perturbed value is the rounded sum.
C19_Witness ==
    /\ scenario = "grad" /\ gpc = "returned"
    /\ Len(gx0) = 2
    /\ gx0[2] = OnePlusUlp
    /\ gout[2].f1[2].k = "ulp"
    /\ gout[2].f1[1] = gx0[1]

\* The positions of an event in the trace of main.
At(e) == {n \in 1..Len(trace) : trace[n] = e}

\* Every occurrence of event a comes after an occurrence of event b.
OnlyAfter(a, b) == \A n \in At(a) : \E m \in At(b) : m < n

\* C20: in fsl_dynmrs check_FID and check_Basis are called on every spectrum
\* of the list before dynMRS is constructed; initialise is called before fit
\* and its result is the init passed to fit; options.txt and the saved
\* result are written only after fit; the HTML report is created only after
\* the save, and only when --report was given.
C20_FitPipelineOrder ==
    scenario = "cli" =>
        /\ \A d \in At("dynMRS") :
              /\ Cardinality({n \in At("check_FID") : n < d}) = env.nspectra
              /\ Cardinality({n \in At("check_Basis") : n < d}) = env.nspectra
              /\ \A n \in At("check_FID") \cup At("check_Basis") : n < d
        /\ OnlyAfter("initialise", "dynMRS")
        /\ OnlyAfter("fit", "initialise")
        /\ At("fit") # {} => (fitinit = init /\ init # None)
        /\ OnlyAfter("options.txt", "fit")
        /\ OnlyAfter("save", "fit")
        /\ OnlyAfter("report.html", "save")
        /\ At("report.html") # {} => args.report
        /\ (pc = "done" /\ args.report) => At("report.html") # {}

\* A run over two spectra with --report that went through to the report.
C20_Witness ==
    /\ scenario = "cli" /\ pc = "done"
    /\ env.nspectra = 2
    /\ args.report
    /\ At("report.html") # {}
    /\ At("fit") # {}

----------------------------------------------------------------------------
(* Claims about subplot_shape and identifyUnlikeFIDs.                      *)

\* The pair subplot_shape returned covers the plots, is square or one row
\* taller, and has no line it could do without; every plot placed so far is
\* inside the grid the caller created, each in a cell of its own.
ShapeTight ==
    scenario = "plot" =>
        /\ scall.counter <= 2
        /\ scall.pc \in {"place", "done"} =>
              /\ scall.col * scall.row >= scall.plots_needed
              /\ scall.row - scall.col \in {0, 1}
              /\ scall.col * (scall.row - 1) < scall.plots_needed
              /\ (scall.col - 1) * scall.row < scall.plots_needed
        /\ \A k \in 1..Len(scall.placed) :
              /\ scall.placed[k].row \in 1..scall.rows
              /\ scall.placed[k].col \in 1..scall.cols
              /\ \A j \in 1..(k - 1) : scall.placed[j] # scall.placed[k]
        /\ scall.pc = "done" => Len(scall.placed) = scall.plots_needed

\* C22: subplot_shape(n) terminates for every n >= 1 and returns (col, row)
\* with col*row >= n, row - col in {0, 1}, col*(row-1) < n and
\* (col-1)*row < n; a caller placing plot idx of 0..n-1 at row idx // cols
\* and column idx % cols stays inside the grid it created.
C22_ShapeTerminatesTight ==
    /\ []ShapeTight
    /\ (scenario = "plot") ~> (scall.pc = "done")

\* Seven plots: the loop ran twice and the caller filled a 3 x 3 grid.
C22_Witness ==
    /\ scenario = "plot" /\ scall.pc = "done"
    /\ scall.plots_needed = 7
    /\ scall.counter = 2
    /\ scall.rows = 3 /\ scall.cols = 3
    /\ Len(scall.placed) = 7

Range(q) == {q[j] : j \in 1..Len(q)}

Ascending(q) == \A j \in 1..(Len(q) - 1) : q[j] < q[j + 1]

\* A metric lies strictly outside mean(metric) +/- sdlimit * std(metric):
\* |m - mean| > sdlimit * std, squared and scaled by (2n)^2.
OutsideBand(metric, m, sd2) ==
    LET n    == Len(metric)
        mean == SumSeq(metric)                                   \* n * mean
        var  == n * SumSq(metric) - SumSeq(metric) * SumSeq(metric)   \* n^2 * var
    IN  4 * (n * m - mean) * (n * m - mean) > sd2 * sd2 * var

====
